---- MODULE Spec2Model ----
(***************************************************************************)
(* Model of regex_builder.py: build_regex (the Normalizer, the anchoring   *)
(* loop, the call of optimize_regex and the negative-lookahead wrapper)    *)
(* and optimize_regex (grouping by the second "/"-separated field).        *)
(*                                                                         *)
(* Python strings are TLA+ strings; Ch(s, i) is the one-character string   *)
(* at (1-based) position i.  The backslash character is written "\\".      *)
(***************************************************************************)
EXTENDS Integers, Sequences, FiniteSets, TLC

VARIABLES urls, domain, wild_start, wild_end, case_sensitive, negative_match,
          pc, stripped_urls, stripped_paths, regex_parts,
          patterns, optimized_patterns, optimized_regex, result

vars == <<urls, domain, wild_start, wild_end, case_sensitive, negative_match,
          pc, stripped_urls, stripped_paths, regex_parts,
          patterns, optimized_patterns, optimized_regex, result>>

(***************************************************************************)
(* Bounds of the model.                                                    *)
(***************************************************************************)
MaxUrls == 3
MaxPatterns == 3

(***************************************************************************)
(* String primitives of Python used by the source.                         *)
(***************************************************************************)
Ch(s, i) == SubSeq(s, i, i)

From(s, i) == SubSeq(s, i, Len(s))

Whitespace == {" ", "\t"}

RECURSIVE lstrip(_)
lstrip(s) ==
    IF Len(s) > 0 /\ Ch(s, 1) \in Whitespace THEN lstrip(From(s, 2)) ELSE s

RECURSIVE rstrip(_)
rstrip(s) ==
    IF Len(s) > 0 /\ Ch(s, Len(s)) \in Whitespace
    THEN rstrip(SubSeq(s, 1, Len(s) - 1))
    ELSE s

\* url.strip()
str_strip(s) == rstrip(lstrip(s))

\* s.startswith(p)
startswith(s, p) == Len(s) >= Len(p) /\ SubSeq(s, 1, Len(p)) = p

\* s.replace(old, new) for a one-character old
RECURSIVE str_replace(_, _, _)
str_replace(s, old, new) ==
    IF s = "" THEN ""
    ELSE (IF Ch(s, 1) = old THEN new ELSE Ch(s, 1))
             \o str_replace(From(s, 2), old, new)

\* s.split(sep) for a one-character sep: always at least one field
RECURSIVE str_split_from(_, _, _)
str_split_from(s, sep, field) ==
    IF s = "" THEN <<field>>
    ELSE IF Ch(s, 1) = sep
         THEN <<field>> \o str_split_from(From(s, 2), sep, "")
         ELSE str_split_from(From(s, 2), sep, field \o Ch(s, 1))

str_split(s, sep) == str_split_from(s, sep, "")

\* sep.join(parts)
RECURSIVE str_join(_, _)
str_join(sep, parts) ==
    IF Len(parts) = 0 THEN ""
    ELSE IF Len(parts) = 1 THEN parts[1]
         ELSE parts[1] \o sep \o str_join(sep, Tail(parts))

(***************************************************************************)
(* The part of Python's re module that line 53 uses: re.escape, and        *)
(* re.sub of a pattern made of literals, escaped literals, "." and the     *)
(* "?" quantifier, with or without re.IGNORECASE.                          *)
(***************************************************************************)
UpperCase == "ABCDEFGHIJKLMNOPQRSTUVWXYZ"
LowerCase == "abcdefghijklmnopqrstuvwxyz"

lower(c) ==
    IF \E i \in 1..26 : Ch(UpperCase, i) = c
    THEN Ch(LowerCase, CHOOSE i \in 1..26 : Ch(UpperCase, i) = c)
    ELSE c

\* the characters re.escape puts a backslash before
ReSpecialChars ==
    {"(", ")", "[", "]", "{", "}", "?", "*", "+", "-", "|", "^", "$", "\\",
     ".", "&", "~", "#", " ", "\t"}

RECURSIVE re_escape(_)
re_escape(s) ==
    IF s = "" THEN ""
    ELSE (IF Ch(s, 1) \in ReSpecialChars THEN "\\" \o Ch(s, 1) ELSE Ch(s, 1))
             \o re_escape(From(s, 2))

\* one pattern atom against one character of the subject
atom_matches(atom, c, ignorecase) ==
    LET lit == IF Len(atom) = 2 THEN Ch(atom, 2) ELSE atom
    IN  IF atom = "." THEN c # "\n"
        ELSE lit = c \/ (ignorecase /\ lower(lit) = lower(c))

\* the end (exclusive) of the match of pat that starts at position i of s,
\* as the backtracking matcher finds it (greedy "?"), or -1
RECURSIVE match_end(_, _, _, _)
match_end(pat, s, i, ignorecase) ==
    IF pat = "" THEN i
    ELSE LET alen  == IF Ch(pat, 1) = "\\" THEN 2 ELSE 1
             atom  == SubSeq(pat, 1, alen)
             opt   == Len(pat) > alen /\ Ch(pat, alen + 1) = "?"
             rest  == From(pat, alen + (IF opt THEN 2 ELSE 1))
             taken == IF i <= Len(s) /\ atom_matches(atom, Ch(s, i), ignorecase)
                      THEN match_end(rest, s, i + 1, ignorecase)
                      ELSE -1
         IN  IF opt /\ taken = -1
             THEN match_end(rest, s, i, ignorecase)
             ELSE taken

\* re.sub(pat, "", s, flags): every non-overlapping match, leftmost first,
\* is removed
RECURSIVE re_sub_from(_, _, _, _)
re_sub_from(pat, s, i, ignorecase) ==
    IF i > Len(s) THEN ""
    ELSE LET e == match_end(pat, s, i, ignorecase)
         IN  IF e > i
             THEN re_sub_from(pat, s, e, ignorecase)
             ELSE Ch(s, i) \o re_sub_from(pat, s, i + 1, ignorecase)

re_sub_empty(pat, s, ignorecase) == re_sub_from(pat, s, 1, ignorecase)

\* rf"https?://{re.escape(domain)}/?"
strip_pattern(d) == "https?://" \o re_escape(d) \o "/?"

(***************************************************************************)
(* build_regex, lines 49-57: the Normalizer.                               *)
(***************************************************************************)
\* variant: lines 54-55 left out, no "/" is put before the stripped text
stripped_url_of_no_slash(url, d, cs) ==
    re_sub_empty(strip_pattern(d), str_strip(url), ~cs)

\* the value of stripped_url after line 55
stripped_url_of(url, d, cs) ==
    LET s == re_sub_empty(strip_pattern(d), str_strip(url), ~cs)
    IN  IF ~startswith(s, "/") THEN "/" \o s ELSE s

\* the value appended to stripped_paths at line 57
stripped_path_of(stripped_url) == str_replace(stripped_url, "/", "\\/")

(***************************************************************************)
(* build_regex, lines 59-66: the anchors.                                  *)
(***************************************************************************)
anchored(path, ws, we) ==
    LET p1 == IF ~ws THEN "^" \o path ELSE path
    IN  IF ~we THEN p1 \o "$" ELSE p1

(***************************************************************************)
(* optimize_regex, lines 16-31.                                            *)
(***************************************************************************)
\* line 18 raises IndexError when split("/") has a single field
has_prefix(pattern) == Len(str_split(pattern, "/")) >= 2

\* pattern.split("/")[1]
prefix_of(pattern) == str_split(pattern, "/")[2]

\* the keys of prefix_dict in insertion order (a dict keeps the order in
\* which its keys were first inserted)
RECURSIVE prefix_keys_from(_, _)
prefix_keys_from(ps, seen) ==
    IF Len(ps) = 0 THEN <<>>
    ELSE LET k == prefix_of(Head(ps))
         IN  IF k \in seen
             THEN prefix_keys_from(Tail(ps), seen)
             ELSE <<k>> \o prefix_keys_from(Tail(ps), seen \cup {k})

\* variant: the keys in the order in which each was last inserted
RECURSIVE prefix_keys_last_seen(_)
prefix_keys_last_seen(ps) ==
    IF Len(ps) = 0 THEN <<>>
    ELSE LET k == prefix_of(Head(ps))
         IN  IF \E j \in 2..Len(ps) : prefix_of(ps[j]) = k
             THEN prefix_keys_last_seen(Tail(ps))
             ELSE <<k>> \o prefix_keys_last_seen(Tail(ps))

prefix_keys(ps) == prefix_keys_from(ps, {})

\* prefix_dict[prefix]: the patterns with that key, in input order
RECURSIVE paths_of(_, _)
paths_of(prefix, ps) ==
    IF Len(ps) = 0 THEN <<>>
    ELSE (IF prefix_of(Head(ps)) = prefix THEN <<Head(ps)>> ELSE <<>>)
             \o paths_of(prefix, Tail(ps))

\* line 25: p[len(prefix) + 1:]
suffix_of(p, prefix) == From(p, Len(prefix) + 2)

\* lines 23-29: the entry appended to optimized_patterns for one key
group_entry(prefix, paths) ==
    IF Len(paths) > 1
    THEN "^\\/" \o prefix \o "("
             \o str_join("|", [i \in 1..Len(paths) |-> suffix_of(paths[i], prefix)])
             \o ")$"
    ELSE paths[1]

\* lines 21-29: optimized_patterns
optimized_patterns_of(ps) ==
    LET keys == prefix_keys(ps)
    IN  [k \in 1..Len(keys) |-> group_entry(keys[k], paths_of(keys[k], ps))]

\* does optimize_regex(ps) raise IndexError at line 18?
optimize_raises(ps) == \E i \in 1..Len(ps) : ~has_prefix(ps[i])

\* variant: an empty list of patterns gives the anchored empty pattern
optimize_regex_anchor_empty(ps) ==
    IF Len(ps) = 0 THEN "^$" ELSE str_join("|", optimized_patterns_of(ps))

\* line 31
optimize_regex(ps) == str_join("|", optimized_patterns_of(ps))

(***************************************************************************)
(* build_regex, lines 68-73.                                               *)
(***************************************************************************)
\* variant: the lookahead without the ".*" that consumes the input
negative_wrap_no_dotstar(base) == "^(?!" \o base \o ")$"

negative_wrap(base) == "^(?!" \o base \o ").*$"

\* build_regex as a function of its arguments (defined when it returns)
build_regex(us, d, ws, we, cs, neg) ==
    LET parts == [i \in 1..Len(us) |->
                     anchored(stripped_path_of(stripped_url_of(us[i], d, cs)), ws, we)]
        opt   == optimize_regex(parts)
    IN  IF neg THEN negative_wrap(opt) ELSE opt

(***************************************************************************)
(* Inputs.                                                                 *)
(***************************************************************************)
UrlPool ==
    { "https://d.c/a/b",
      "HTTP://D.C/a/c",
      " /a/b.c",
      "/x/http://d.c/y",
      "q ",
      "" }

DomainPool == {"d.c", ""}

FragmentPool ==
    { "^\\/a\\/b$", "^\\/a\\/c$", "\\/b", "^\\/c\\/d$", "abc", "" }

SeqsUpTo(S, n) == UNION {[1..k -> S] : k \in 0..n}

(***************************************************************************)
(* Specification of a call of build_regex.                                 *)
(***************************************************************************)
Init ==
    /\ urls \in SeqsUpTo(UrlPool, MaxUrls)
    /\ domain \in DomainPool
    /\ wild_start \in BOOLEAN
    /\ wild_end \in BOOLEAN
    /\ case_sensitive \in BOOLEAN
    /\ negative_match \in BOOLEAN
    /\ pc = "start"
    /\ stripped_urls = <<>>
    /\ stripped_paths = <<>>
    /\ regex_parts = <<>>
    /\ patterns = <<>>
    /\ optimized_patterns = <<>>
    /\ optimized_regex = ""
    /\ result = ""

\* lines 51-57
Normalize ==
    /\ pc = "start"
    /\ stripped_urls' =
           [i \in 1..Len(urls) |-> stripped_url_of(urls[i], domain, case_sensitive)]
    /\ stripped_paths' =
           [i \in 1..Len(urls) |-> stripped_path_of(stripped_urls'[i])]
    /\ pc' = "stripped"
    /\ UNCHANGED <<urls, domain, wild_start, wild_end, case_sensitive,
                   negative_match, regex_parts, patterns, optimized_patterns,
                   optimized_regex, result>>

\* lines 59-66
Anchor ==
    /\ pc = "stripped"
    /\ regex_parts' =
           [i \in 1..Len(stripped_paths) |->
               anchored(stripped_paths[i], wild_start, wild_end)]
    /\ pc' = "anchored"
    /\ UNCHANGED <<urls, domain, wild_start, wild_end, case_sensitive,
                   negative_match, stripped_urls, stripped_paths, patterns,
                   optimized_patterns, optimized_regex, result>>

\* the body of optimize_regex on its argument
OptimizeBody(ps, returned, raised) ==
    /\ patterns' = ps
    /\ IF optimize_raises(ps)
       THEN /\ pc' = raised
            /\ UNCHANGED <<optimized_patterns, optimized_regex>>
       ELSE /\ pc' = returned
            /\ optimized_patterns' = optimized_patterns_of(ps)
            /\ optimized_regex' = optimize_regex(ps)

\* line 69
Optimize ==
    /\ pc = "anchored"
    /\ OptimizeBody(regex_parts, "optimized", "raised")
    /\ UNCHANGED <<urls, domain, wild_start, wild_end, case_sensitive,
                   negative_match, stripped_urls, stripped_paths, regex_parts,
                   result>>

\* lines 70-73
Return ==
    /\ pc = "optimized"
    /\ result' = IF negative_match
                 THEN negative_wrap(optimized_regex)
                 ELSE optimized_regex
    /\ pc' = "done"
    /\ UNCHANGED <<urls, domain, wild_start, wild_end, case_sensitive,
                   negative_match, stripped_urls, stripped_paths, regex_parts,
                   patterns, optimized_patterns, optimized_regex>>

Next == Normalize \/ Anchor \/ Optimize \/ Return

Spec == Init /\ [][Next]_vars

(***************************************************************************)
(* Specification of a direct call of optimize_regex on any list of         *)
(* strings.                                                                *)
(***************************************************************************)
InitOptimize ==
    /\ urls = <<>>
    /\ domain = ""
    /\ wild_start = FALSE
    /\ wild_end = FALSE
    /\ case_sensitive = TRUE
    /\ negative_match = FALSE
    /\ pc = "call"
    /\ stripped_urls = <<>>
    /\ stripped_paths = <<>>
    /\ regex_parts \in SeqsUpTo(FragmentPool, MaxPatterns)
    /\ patterns = <<>>
    /\ optimized_patterns = <<>>
    /\ optimized_regex = ""
    /\ result = ""

CallOptimizeRegex ==
    /\ pc = "call"
    /\ OptimizeBody(regex_parts, "returned", "raised")
    /\ UNCHANGED <<urls, domain, wild_start, wild_end, case_sensitive,
                   negative_match, stripped_urls, stripped_paths, regex_parts,
                   result>>

NextOptimize == CallOptimizeRegex

SpecOptimize == InitOptimize /\ [][NextOptimize]_vars

(***************************************************************************)
(* Vocabulary of the properties.                                           *)
(***************************************************************************)
RegexMetaChars ==
    {".", "^", "$", "*", "+", "?", "(", ")", "[", "]", "{", "}", "|", "\\"}

PlainChars ==
    {Ch(LowerCase, i) : i \in 1..26} \cup {Ch(UpperCase, i) : i \in 1..26}
        \cup {Ch("0123456789", i) : i \in 1..10} \cup {"/"}

endswith(s, p) ==
    Len(s) >= Len(p) /\ SubSeq(s, Len(s) - Len(p) + 1, Len(s)) = p

Contains(s, c) == \E i \in 1..Len(s) : Ch(s, i) = c

\* position i of s holds c, and no backslash stands right before it
UnescapedAt(s, i, c) == Ch(s, i) = c /\ (i = 1 \/ Ch(s, i - 1) # "\\")

\* reading s left to right, a backslash escapes the character after it:
\* is some metacharacter of s outside such a pair?
RECURSIVE HasUnescapedMeta(_)
HasUnescapedMeta(s) ==
    IF s = "" THEN FALSE
    ELSE IF Ch(s, 1) = "\\"
         THEN Len(s) < 2 \/ HasUnescapedMeta(From(s, 3))
         ELSE Ch(s, 1) \in RegexMetaChars \/ HasUnescapedMeta(From(s, 2))

\* the parentheses of s that no backslash precedes are balanced
RECURSIVE BalancedFrom(_, _, _)
BalancedFrom(s, i, depth) ==
    IF i > Len(s) THEN depth = 0
    ELSE IF UnescapedAt(s, i, "(") THEN BalancedFrom(s, i + 1, depth + 1)
         ELSE IF UnescapedAt(s, i, ")")
              THEN depth > 0 /\ BalancedFrom(s, i + 1, depth - 1)
              ELSE BalancedFrom(s, i + 1, depth)

Balanced(s) == BalancedFrom(s, 1, 0)

RECURSIVE LowerStr(_)
LowerStr(s) == IF s = "" THEN "" ELSE lower(Ch(s, 1)) \o LowerStr(From(s, 2))

\* s begins with http://<d> or https://<d>, compared as case_sensitive says
HasLeadingPrefix(s, d, cs) ==
    LET t == IF cs THEN s ELSE LowerStr(s)
        e == IF cs THEN d ELSE LowerStr(d)
    IN  startswith(t, "http://" \o e) \/ startswith(t, "https://" \o e)

\* the group key of a fragment, read off by position: the text between its
\* first "/" and its next "/" (or its end)
SlashPositions(f) == {i \in 1..Len(f) : Ch(f, i) = "/"}

FirstSlash(f) == CHOOSE i \in SlashPositions(f) : \A j \in SlashPositions(f) : i <= j

KeyOf(f) ==
    LET a     == FirstSlash(f)
        later == {i \in SlashPositions(f) : i > a}
        b     == IF later = {} THEN Len(f) + 1
                 ELSE CHOOSE i \in later : \A j \in later : i <= j
    IN  SubSeq(f, a + 1, b - 1)

\* the positions of ps at which a key appears for the first time
FirstSeen(ps) ==
    {i \in 1..Len(ps) : \A j \in 1..(i - 1) : KeyOf(ps[j]) # KeyOf(ps[i])}

RankIn(S, i) == Cardinality({j \in S : j <= i})

Members(ps, key) == SelectSeq(ps, LAMBDA f : KeyOf(f) = key)

\* entry is <prefix>(<s_1>|...|<s_n>)<tail> with prefix \o s_i \o tail = members[i]
GroupWellFormed(entry, members) ==
    \E p \in 0..Len(entry), t \in 0..Len(entry) :
        LET prefix == SubSeq(entry, 1, p)
            tail   == SubSeq(entry, Len(entry) - t + 1, Len(entry))
        IN  /\ p + t <= Len(entry)
            /\ \A i \in 1..Len(members) :
                   /\ Len(members[i]) >= p + t
                   /\ startswith(members[i], prefix)
                   /\ endswith(members[i], tail)
            /\ entry = prefix \o "("
                   \o str_join("|", [i \in 1..Len(members) |->
                          SubSeq(members[i], p + 1, Len(members[i]) - t)])
                   \o ")" \o tail

Optimized == pc \in {"optimized", "done"}

(***************************************************************************)
(* Properties.                                                             *)
(***************************************************************************)

\* C1: every group of two or more fragments sharing a key is emitted as
\* <prefix>(<suffix_1>|...|<suffix_n>) such that the prefix, suffix_i and the
\* text after the closing parenthesis concatenate to the i-th member of the
\* group, in input order.
C1_GroupsExpandToMembers ==
    Optimized =>
        \A i \in FirstSeen(patterns) :
            LET members == Members(patterns, KeyOf(patterns[i]))
            IN  Len(members) >= 2 =>
                    GroupWellFormed(
                        optimized_patterns[RankIn(FirstSeen(patterns), i)], members)

\* C2: when every path holds only letters, digits and "/", the parentheses of
\* the returned pattern that no backslash precedes are balanced.
C2_BalancedParens ==
    (/\ pc = "done"
     /\ \A i \in 1..Len(stripped_urls) :
            \A j \in 1..Len(stripped_urls[i]) : Ch(stripped_urls[i], j) \in PlainChars)
        => Balanced(result)

\* C3: in every normalized fragment each regex metacharacter of the path text
\* is escaped by a backslash.
C3_MetacharsEscaped ==
    pc # "start" =>
        \A i \in 1..Len(stripped_paths) : ~HasUnescapedMeta(stripped_paths[i])

\* C4: for a trimmed URL that does not begin with http://<domain> or
\* https://<domain>, the text that is escaped and anchored is exactly the
\* trimmed URL.
C4_StripOnlyLeadingPrefix ==
    pc # "start" =>
        \A i \in 1..Len(urls) :
            ~HasLeadingPrefix(str_strip(urls[i]), domain, case_sensitive)
                => stripped_urls[i] = str_strip(urls[i])

\* C5: without negative_match, every top-level alternative of the returned
\* pattern begins with "^" exactly when wild_start is false and ends with "$"
\* exactly when wild_end is false, merged groups included.
C5_AnchorsFollowFlags ==
    (pc = "done" /\ ~negative_match) =>
        /\ result = str_join("|", optimized_patterns)
        /\ \A k \in 1..Len(optimized_patterns) :
               /\ startswith(optimized_patterns[k], "^") <=> ~wild_start
               /\ endswith(optimized_patterns[k], "$") <=> ~wild_end

\* C6: with negative_match the returned pattern is "^(?!", then what
\* build_regex returns for the same arguments without negative_match, then
\* ").*$".
C6_NegativeWrapsBase ==
    (pc = "done" /\ negative_match) =>
        result = "^(?!"
                     \o build_regex(urls, domain, wild_start, wild_end,
                                    case_sensitive, FALSE)
                     \o ").*$"

C6_Witness ==
    /\ pc = "done"
    /\ negative_match
    /\ Len(optimized_patterns) >= 2
    /\ \E k \in 1..Len(optimized_patterns) : Contains(optimized_patterns[k], "(")

\* C7: build_regex never raises: every fragment handed to optimize_regex
\* holds a "/", so line 18 never raises IndexError, whatever the lines are.
C7_BuildRegexNeverRaises ==
    /\ pc # "raised"
    /\ pc \in {"anchored", "optimized", "done"} =>
           \A i \in 1..Len(regex_parts) : Contains(regex_parts[i], "/")
    /\ pc = "done" => Len(regex_parts) = Len(urls)

C7_Witness ==
    /\ pc = "done"
    /\ \E i \in 1..Len(urls) : urls[i] = ""
    /\ \E i \in 1..Len(urls) : urls[i] # "" /\ ~Contains(urls[i], "/")
    /\ \E i, j \in 1..Len(urls) : i # j /\ urls[i] = urls[j]

\* C8: given a fragment without "/", optimize_regex returns, and emits that
\* fragment unchanged as the entry of its own group.
C8_NoSlashFragmentIsSingleton ==
    (pc # "call" /\ \E i \in 1..Len(regex_parts) : ~Contains(regex_parts[i], "/"))
        => /\ pc = "returned"
           /\ \A i \in 1..Len(regex_parts) :
                  ~Contains(regex_parts[i], "/") =>
                      \E k \in 1..Len(optimized_patterns) :
                          optimized_patterns[k] = regex_parts[i]

\* C9 as stated: for an empty URL list build_regex returns "^(?!).*$" with
\* negative_match and "^$" without.
C9_EmptyListAsStated ==
    (pc = "done" /\ urls = <<>>) =>
        result = IF negative_match THEN "^(?!).*$" ELSE "^$"

\* C9 as amended: for an empty URL list build_regex returns "^(?!).*$" with
\* negative_match and the empty string without.
C9_EmptyListAmended ==
    (pc = "done" /\ urls = <<>>) =>
        result = IF negative_match THEN "^(?!).*$" ELSE ""

C9_Witness == pc = "done" /\ urls = <<>> /\ ~negative_match

\* C10: optimize_regex returns the "|"-join of one entry per distinct key, in
\* the order in which the keys first appear; the entry of a key held by one
\* fragment is that fragment; so with pairwise distinct keys the output is
\* the "|"-join of the input.
C10_OneEntryPerKeyInOrder ==
    Optimized =>
        LET first == FirstSeen(patterns)
        IN  /\ Len(optimized_patterns) = Cardinality(first)
            /\ \A i \in first :
                   LET key   == KeyOf(patterns[i])
                       entry == optimized_patterns[RankIn(first, i)]
                   IN  IF Len(Members(patterns, key)) = 1
                       THEN entry = patterns[i]
                       ELSE startswith(entry, "^\\/" \o key \o "(")
            /\ optimized_regex = str_join("|", optimized_patterns)
            /\ Cardinality(first) = Len(patterns)
                   => optimized_regex = str_join("|", patterns)

C10_Witness ==
    /\ pc = "done"
    /\ Len(patterns) = 3
    /\ KeyOf(patterns[1]) = KeyOf(patterns[3])
    /\ KeyOf(patterns[1]) # KeyOf(patterns[2])
    /\ patterns[1] # patterns[3]

====
